---- MODULE Spec2Model ----
(***************************************************************************)
(* A model of the Modbus request-PDU encoder (umodbus/client/pdu.py) and   *)
(* of the route table (umodbus/route.py).                                  *)
(*                                                                         *)
(* The encoder functions are pure; each is an operator and an action that  *)
(* applies it to inputs drawn from bounded sets.  The route table is an    *)
(* object whose state is its rule list.                                    *)
(***************************************************************************)
EXTENDS Integers, Sequences, FiniteSets

VARIABLES
    fn,                \* name of the last operation called ("" before any)
    args,              \* arguments of the last encoder / match call
    result,            \* what the last call returned or raised
    values,            \* the caller's list passed to write_multiple_*
    starting_address,  \* the caller's starting address for write_multiple_*
    calls,             \* number of write_multiple_* calls made so far
    rules              \* Map._rules

vars == <<fn, args, result, values, starting_address, calls, rules>>

----------------------------------------------------------------------------
(* Bounds of the model.                                                    *)

MaxCoils == 9
MaxCalls == 2
MaxRegs == 128
SeedLen == 2
MaxRules == 3

----------------------------------------------------------------------------
(* struct.pack with a big-endian format of 'B' and 'H' items.              *)

Min(a, b) == IF a < b THEN a ELSE b

\* the sequence of n items c ('B' * n)
Repeat(c, n) == [k \in 1..n |-> c]

\* the outcome of a call: a byte string, or the exception it raised
Ok(bytes) == [status |-> "ok", pdu |-> bytes]
StructError == [status |-> "struct.error", pdu |-> <<>>]
NoResult == [status |-> "none", pdu |-> <<>>]

\* does value v fit format item c
InRange(c, v) == IF c = "B" THEN v \in 0..255 ELSE v \in 0..65535

\* the bytes of one item, most significant byte first
PackItem(c, v) == IF c = "B" THEN <<v>> ELSE <<v \div 256, v % 256>>

\* the bytes of the items in format order (the two halves of the format
\* are packed one after the other, which keeps the evaluation shallow)
RECURSIVE PackBytes(_, _)
PackBytes(fmt, vs) ==
    IF fmt = <<>> THEN <<>>
    ELSE IF Len(fmt) = 1 THEN PackItem(fmt[1], vs[1])
    ELSE LET h == Len(fmt) \div 2
         IN  PackBytes(SubSeq(fmt, 1, h), SubSeq(vs, 1, h))
                 \o PackBytes(SubSeq(fmt, h + 1, Len(fmt)),
                              SubSeq(vs, h + 1, Len(vs)))

\* struct.pack('>' + fmt, *vs): raises struct.error when the number of
\* values differs from the number of format items or a value is out of range
StructPack(fmt, vs) ==
    IF Len(fmt) # Len(vs) THEN StructError
    ELSE IF \E k \in 1..Len(fmt) : ~InRange(fmt[k], vs[k]) THEN StructError
    ELSE Ok(PackBytes(fmt, vs))

----------------------------------------------------------------------------
(* The fixed-size encoders.                                                *)

read_coils(address, quantity) ==
    StructPack(<<"B", "H", "H">>, <<1, address, quantity>>)

read_discrete_inputs(address, quantity) ==
    StructPack(<<"B", "H", "H">>, <<2, address, quantity>>)

read_holding_registers(address, quantity) ==
    StructPack(<<"B", "H", "H">>, <<3, address, quantity>>)

read_input_registers(address, quantity) ==
    StructPack(<<"B", "H", "H">>, <<4, address, quantity>>)

\* truth value of an integer in a condition
Truthy(v) == v # 0

CoilStatusFF00(value) == IF Truthy(value) THEN 65280 ELSE 0

\* status = 0xFFFF if value else 0x0000

CoilStatus(value) == IF Truthy(value) THEN 65535 ELSE 0

write_single_coil(address, value) ==
    StructPack(<<"B", "H", "H">>, <<5, address, CoilStatus(value)>>)

write_single_register(address, value) ==
    StructPack(<<"B", "H", "H">>, <<6, address, value>>)

----------------------------------------------------------------------------
(* write_multiple_coils.                                                   *)

\* bitwise exclusive or of two naturals
RECURSIVE Xor(_, _)
Xor(a, b) ==
    IF a = 0 THEN b
    ELSE IF b = 0 THEN a
    ELSE 2 * Xor(a \div 2, b \div 2) + (IF a % 2 = b % 2 THEN 0 ELSE 1)

RECURSIVE ReverseSeq(_)
ReverseSeq(s) == IF s = <<>> THEN <<>> ELSE Append(ReverseSeq(Tail(s)), Head(s))

\* values[i:i+8], a new list (i counts from 0)
Slice8(vals, i) == SubSeq(vals, i + 1, Min(i + 8, Len(vals)))

\* reduce(lambda value, bit: (value << 1) ^ bit, bits, acc)
RECURSIVE Reduce(_, _)
Reduce(bits, acc) ==
    IF bits = <<>> THEN acc
    ELSE Reduce(Tail(bits), Xor(2 * acc, Head(bits)))

BytesRequiredCeil(vals) == (Len(vals) + 7) \div 8

\* bytes_required: the number of 'B' items the format is given
BytesRequired(vals) == (Len(vals) \div 8) + 1

\* a loop body that reverses the group inside the caller's list
LoopBodyInPlace(st, i) ==
    LET eight_bits == ReverseSeq(Slice8(st.values, i))
    IN  [values |-> SubSeq(st.values, 1, i) \o eight_bits
                    \o SubSeq(st.values, i + 9, Len(st.values)),
         bytes_ |-> Append(st.bytes_, Reduce(eight_bits, 0))]

\* one iteration of the loop: st.values is the caller's list, st.bytes_ the
\* bytes packed so far.  The slice is a copy, so reversing it leaves the
\* caller's list alone.
LoopBody(st, i) ==
    LET eight_bits == ReverseSeq(Slice8(st.values, i))
    IN  [values |-> st.values,
         bytes_ |-> Append(st.bytes_, Reduce(eight_bits, 0))]

\* for i in range(i, len(values), 8)
RECURSIVE CoilsLoop(_, _)
CoilsLoop(st, i) ==
    IF i >= Len(st.values) THEN st
    ELSE CoilsLoop(LoopBody(st, i), i + 8)

\* the state of the caller's list and of bytes_ when the loop has ended
CoilsPacked(vals) == CoilsLoop([values |-> vals, bytes_ |-> <<>>], 0)

write_multiple_coils(address, vals) ==
    LET bytes_required == BytesRequired(vals)
        after == CoilsPacked(vals)
    IN  StructPack(<<"B", "H", "H", "B">> \o Repeat("B", bytes_required),
                   <<15, address, Len(after.values), bytes_required>>
                       \o after.bytes_)

----------------------------------------------------------------------------
(* write_multiple_registers.                                               *)

RegByteCountLen(vals) == Len(vals)

\* the byte count handed to struct.pack
RegByteCount(vals) == 2 * Len(vals)

write_multiple_registers(address, vals) ==
    StructPack(<<"B", "H", "H", "B">> \o Repeat("H", Len(vals)),
               <<16, address, Len(vals), RegByteCount(vals)>> \o vals)

----------------------------------------------------------------------------
(* The route table.                                                        *)

\* a constraint is None or a collection of accepted values
NoneC == [none |-> TRUE, members |-> {}]
OneOf(S) == [none |-> FALSE, members |-> S]

DataRule(endpoint, slave_ids, function_codes, addresses) ==
    [endpoint |-> endpoint, slave_ids |-> slave_ids,
     function_codes |-> function_codes, addresses |-> addresses]

\* lambda values, v: values is None or v in values
matches(constraint, v) == constraint.none \/ v \in constraint.members

\* DataRule.match
rule_match(rule, function_code, address) ==
    matches(rule.function_codes, function_code)
        /\ matches(rule.addresses, address)

\* DataRule.match_slave_id
match_slave_id(rule, slave_id) ==
    IF matches(rule.slave_ids, slave_id) THEN TRUE ELSE FALSE

\* what a Map call returns or raises
Endpoint(e) == [kind |-> "endpoint", value |-> e]
ReturnFalse == [kind |-> "False", value |-> ""]
ReturnNone == [kind |-> "None", value |-> ""]
IndexError == [kind |-> "IndexError", value |-> ""]

add_rule_first(rs, endpoint, slave_ids, function_codes, addresses) ==
    <<DataRule(endpoint, slave_ids, function_codes, addresses)>> \o rs

\* Map.add_rule: the rule list after the call
add_rule(rs, endpoint, slave_ids, function_codes, addresses) ==
    Append(rs, DataRule(endpoint, slave_ids, function_codes, addresses))

\* a loop that keeps the last matching rule instead of returning at the first
RECURSIVE MatchLoopLast(_, _, _, _)
MatchLoopLast(rs, k, function_code, address) ==
    IF k > Len(rs) THEN ReturnNone
    ELSE LET rest == MatchLoopLast(rs, k + 1, function_code, address)
         IN  IF rest.kind = "endpoint" THEN rest
             ELSE IF rule_match(rs[k], function_code, address)
                  THEN Endpoint(rs[k].endpoint)
                  ELSE ReturnNone

\* for rule in self._rules, from the k-th rule on; falling off the end of
\* the function returns None
RECURSIVE MatchLoop(_, _, _, _)
MatchLoop(rs, k, function_code, address) ==
    IF k > Len(rs) THEN ReturnNone
    ELSE IF rule_match(rs[k], function_code, address)
         THEN Endpoint(rs[k].endpoint)
         ELSE MatchLoop(rs, k + 1, function_code, address)

\* a loop that also asks every rule for the slave id
RECURSIVE MatchLoopSlave(_, _, _, _, _)
MatchLoopSlave(rs, k, slave_id, function_code, address) ==
    IF k > Len(rs) THEN ReturnNone
    ELSE IF match_slave_id(rs[k], slave_id)
            /\ rule_match(rs[k], function_code, address)
         THEN Endpoint(rs[k].endpoint)
         ELSE MatchLoopSlave(rs, k + 1, slave_id, function_code, address)

match_every_slave(rs, slave_id, function_code, address) ==
    IF Len(rs) = 0 THEN IndexError
    ELSE MatchLoopSlave(rs, 1, slave_id, function_code, address)

\* Map.match: self._rules[0] raises IndexError on an empty list
match(rs, slave_id, function_code, address) ==
    IF Len(rs) = 0 THEN IndexError
    ELSE IF ~match_slave_id(rs[1], slave_id) THEN ReturnFalse
    ELSE MatchLoop(rs, 1, function_code, address)

----------------------------------------------------------------------------
(* Inputs.                                                                 *)

\* 16-bit addresses
AddrSet == {0, 100, 4660, 65535}

\* addresses and quantities handed to the fixed-size encoders; 65536 does
\* not fit a 16-bit field
FixedAddrs == AddrSet \cup {65536}
FixedValues == {0, 1, 3, 255, 256, 2000, 65535, 65536}

\* every coil list of at most MaxCoils coils
CoilSeqs == UNION {[1..n -> {0, 1}] : n \in 0..MaxCoils}

\* register lists: a seed of at most SeedLen registers repeated up to a
\* length of at most MaxRegs
RegVals == {0, 258, 65535}
RegSeeds == UNION {[1..n -> RegVals] : n \in 1..SeedLen}
Cycle(seed, n) == [k \in 1..n |-> seed[((k - 1) % Len(seed)) + 1]]
RegSeqs == {Cycle(seed, n) : seed \in RegSeeds, n \in 0..MaxRegs}

\* rules and requests of the route table
Endpoints == {"A", "B"}
SlaveConstraints == {NoneC, OneOf({1}), OneOf({2})}
FunctionConstraints == {NoneC, OneOf({3})}
AddressConstraints == {NoneC, OneOf({42})}
SlaveIds == {1, 2}
FunctionCodes == {3, 4}
Addresses == {42, 7}

----------------------------------------------------------------------------
(* The fixed-size encoders, called with any inputs.                        *)

InitFixed ==
    /\ fn = ""
    /\ args = <<>>
    /\ result = NoResult
    /\ values = <<>>
    /\ starting_address = 0
    /\ calls = 0
    /\ rules = <<>>

ReadCoils ==
    \E address \in FixedAddrs, quantity \in FixedValues :
        /\ fn' = "read_coils"
        /\ args' = <<address, quantity>>
        /\ result' = read_coils(address, quantity)
        /\ UNCHANGED <<values, starting_address, calls, rules>>

ReadDiscreteInputs ==
    \E address \in FixedAddrs, quantity \in FixedValues :
        /\ fn' = "read_discrete_inputs"
        /\ args' = <<address, quantity>>
        /\ result' = read_discrete_inputs(address, quantity)
        /\ UNCHANGED <<values, starting_address, calls, rules>>

ReadHoldingRegisters ==
    \E address \in FixedAddrs, quantity \in FixedValues :
        /\ fn' = "read_holding_registers"
        /\ args' = <<address, quantity>>
        /\ result' = read_holding_registers(address, quantity)
        /\ UNCHANGED <<values, starting_address, calls, rules>>

ReadInputRegisters ==
    \E address \in FixedAddrs, quantity \in FixedValues :
        /\ fn' = "read_input_registers"
        /\ args' = <<address, quantity>>
        /\ result' = read_input_registers(address, quantity)
        /\ UNCHANGED <<values, starting_address, calls, rules>>

WriteSingleCoil ==
    \E address \in FixedAddrs, value \in FixedValues :
        /\ fn' = "write_single_coil"
        /\ args' = <<address, value>>
        /\ result' = write_single_coil(address, value)
        /\ UNCHANGED <<values, starting_address, calls, rules>>

WriteSingleRegister ==
    \E address \in FixedAddrs, value \in FixedValues :
        /\ fn' = "write_single_register"
        /\ args' = <<address, value>>
        /\ result' = write_single_register(address, value)
        /\ UNCHANGED <<values, starting_address, calls, rules>>

NextFixed ==
    \/ ReadCoils
    \/ ReadDiscreteInputs
    \/ ReadHoldingRegisters
    \/ ReadInputRegisters
    \/ WriteSingleCoil
    \/ WriteSingleRegister

SpecFixed == InitFixed /\ [][NextFixed]_vars

----------------------------------------------------------------------------
(* write_multiple_coils, called up to MaxCalls times in a row on the same  *)
(* list.                                                                   *)

InitCoils ==
    /\ fn = ""
    /\ args = <<>>
    /\ result = NoResult
    /\ values \in CoilSeqs
    /\ starting_address \in AddrSet
    /\ calls = 0
    /\ rules = <<>>

WriteMultipleCoils ==
    /\ calls < MaxCalls
    /\ fn' = "write_multiple_coils"
    /\ result' = write_multiple_coils(starting_address, values)
    /\ values' = CoilsPacked(values).values
    /\ calls' = calls + 1
    /\ UNCHANGED <<args, starting_address, rules>>

NextCoils == WriteMultipleCoils

SpecCoils == InitCoils /\ [][NextCoils]_vars

----------------------------------------------------------------------------
(* write_multiple_registers.                                               *)

InitRegs ==
    /\ fn = ""
    /\ args = <<>>
    /\ result = NoResult
    /\ values \in RegSeqs
    /\ starting_address \in AddrSet
    /\ calls = 0
    /\ rules = <<>>

WriteMultipleRegisters ==
    /\ calls < MaxCalls
    /\ fn' = "write_multiple_registers"
    /\ result' = write_multiple_registers(starting_address, values)
    /\ calls' = calls + 1
    /\ UNCHANGED <<args, values, starting_address, rules>>

NextRegs == WriteMultipleRegisters

SpecRegs == InitRegs /\ [][NextRegs]_vars

----------------------------------------------------------------------------
(* A Map: add_rule and match calls in any order.                           *)

InitRoute ==
    /\ fn = ""
    /\ args = <<>>
    /\ result = ReturnNone
    /\ values = <<>>
    /\ starting_address = 0
    /\ calls = 0
    /\ rules = <<>>

AddRule ==
    /\ Len(rules) < MaxRules
    /\ \E endpoint \in Endpoints, slave_ids \in SlaveConstraints,
          function_codes \in FunctionConstraints,
          addresses \in AddressConstraints :
        /\ fn' = "add_rule"
        /\ args' = <<endpoint, slave_ids, function_codes, addresses>>
        /\ rules' = add_rule(rules, endpoint, slave_ids, function_codes,
                             addresses)
        /\ result' = ReturnNone
    /\ UNCHANGED <<values, starting_address, calls>>

Match ==
    \E slave_id \in SlaveIds, function_code \in FunctionCodes,
       address \in Addresses :
        /\ fn' = "match"
        /\ args' = <<slave_id, function_code, address>>
        /\ result' = match(rules, slave_id, function_code, address)
        /\ UNCHANGED <<values, starting_address, calls, rules>>

NextRoute == AddRule \/ Match

SpecRoute == InitRoute /\ [][NextRoute]_vars

----------------------------------------------------------------------------
(* Properties of write_multiple_coils.                                     *)

\* the fields of a PDU
U16(pdu, k) == pdu[k] * 256 + pdu[k + 1]
IsBytes(pdu) == \A k \in 1..Len(pdu) : pdu[k] \in 0..255

CeilDiv8(n) == IF n % 8 = 0 THEN n \div 8 ELSE (n \div 8) + 1

RECURSIVE Pow2(_)
Pow2(n) == IF n = 0 THEN 1 ELSE 2 * Pow2(n - 1)

\* bit p of byte b, bit 0 being the least significant
Bit(b, p) == (b \div Pow2(p)) % 2

\* coil i (from 0) of the list is bit (i mod 8) of packed byte (i div 8),
\* the packed bytes starting at byte 7 of the PDU
CoilBitsIn(pdu, vals) ==
    \A i \in 0..(Len(vals) - 1) : Bit(pdu[7 + (i \div 8)], i % 8) = vals[i + 1]

CoilsCalled == fn = "write_multiple_coils" /\ calls >= 1

\* C1: for every coil list of length N and every 16-bit starting address,
\* write_multiple_coils returns a PDU whose byte_count field (6th byte) is
\* ceil(N/8), whose coil_count field is N and whose length is 6 + ceil(N/8).
C1_ByteCountIsCeil ==
    (CoilsCalled /\ starting_address \in 0..65535) =>
        /\ result.status = "ok"
        /\ result.pdu[6] = CeilDiv8(Len(values))
        /\ U16(result.pdu, 4) = Len(values)
        /\ Len(result.pdu) = 6 + CeilDiv8(Len(values))

\* C2: the packed bytes round-trip: bit (i mod 8) of packed byte (i div 8)
\* equals values[i] for every i < N, and every bit at a position >= N of the
\* last packed byte is 0.
C2_RoundTrip ==
    CoilsCalled =>
        /\ result.status = "ok"
        /\ Len(result.pdu) = 6 + CeilDiv8(Len(values))
        /\ IsBytes(result.pdu)
        /\ CoilBitsIn(result.pdu, values)
        /\ \A p \in Len(values)..(8 * CeilDiv8(Len(values)) - 1) :
               Bit(result.pdu[7 + (p \div 8)], p % 8) = 0

\* C8 as stated: when the length is an exact multiple of 8 the PDU carries
\* byte_count len/8 + 1 and the len/8 packed bytes followed by one 0x00 byte.
C8_ExtraZeroByte ==
    (CoilsCalled /\ Len(values) % 8 = 0) =>
        /\ result.status = "ok"
        /\ Len(result.pdu) = 6 + (Len(values) \div 8) + 1
        /\ result.pdu[6] = (Len(values) \div 8) + 1
        /\ CoilBitsIn(result.pdu, values)
        /\ result.pdu[Len(result.pdu)] = 0

\* C8 amended: when the length is an exact multiple of 8 the byte count is
\* len/8 + 1 but only len/8 bytes were packed, and the call raises
\* struct.error instead of returning a PDU.
C8_MultipleOf8Raises ==
    (CoilsCalled /\ Len(values) % 8 = 0) =>
        /\ BytesRequired(values) = (Len(values) \div 8) + 1
        /\ Len(CoilsPacked(values).bytes_) = Len(values) \div 8
        /\ result = StructError

C8_Witness ==
    /\ CoilsCalled
    /\ values = <<1, 0, 1, 1, 0, 0, 0, 0>>
    /\ result = StructError

\* C10: a call of write_multiple_coils leaves the caller's list (and the
\* starting address) as it was, and a second call in a row returns what the
\* first returned.
C10_CallerListUnchanged ==
    [][/\ values' = values
       /\ starting_address' = starting_address
       /\ (CoilsCalled => result' = result)]_vars

C10_Witness ==
    /\ fn = "write_multiple_coils"
    /\ calls = 2
    /\ values = <<1, 0, 1, 1, 0, 0, 0, 0, 1>>
    /\ result = Ok(<<15, 0, 0, 0, 9, 2, 13, 1>>)

----------------------------------------------------------------------------
(* Properties of the fixed-size encoders.                                  *)

FixedNames ==
    {"read_coils", "read_discrete_inputs", "read_holding_registers",
     "read_input_registers", "write_single_coil", "write_single_register"}

CodeOf(name) ==
    CASE name = "read_coils" -> 1
      [] name = "read_discrete_inputs" -> 2
      [] name = "read_holding_registers" -> 3
      [] name = "read_input_registers" -> 4
      [] name = "write_single_coil" -> 5
      [] name = "write_single_register" -> 6

\* C6: for a 16-bit address and a 16-bit quantity or value, each fixed-size
\* encoder returns 5 bytes: its function code, the address big-endian and
\* the second field big-endian; for write_single_coil the second field is
\* 0xFFFF for a true value, 0x0000 for a false one and nothing else.
C6_FixedLayout ==
    (/\ fn \in FixedNames
     /\ args[1] \in 0..65535
     /\ (fn # "write_single_coil" => args[2] \in 0..65535)) =>
        /\ result.status = "ok"
        /\ Len(result.pdu) = 5
        /\ IsBytes(result.pdu)
        /\ result.pdu[1] = CodeOf(fn)
        /\ U16(result.pdu, 2) = args[1]
        /\ IF fn = "write_single_coil"
           THEN /\ (args[2] # 0 => U16(result.pdu, 4) = 65535)
                /\ (args[2] = 0 => U16(result.pdu, 4) = 0)
                /\ U16(result.pdu, 4) \in {0, 65535}
           ELSE U16(result.pdu, 4) = args[2]

C6_Witness ==
    /\ fn = "read_coils"
    /\ args = <<0, 3>>
    /\ result = Ok(<<1, 0, 0, 0, 3>>)

----------------------------------------------------------------------------
(* Properties of write_multiple_registers.                                 *)

RegsCalled == fn = "write_multiple_registers" /\ calls >= 1

\* the PDU of function 16 for the list vals at address
RegsLayout(pdu, address, vals) ==
    /\ Len(pdu) = 6 + 2 * Len(vals)
    /\ IsBytes(pdu)
    /\ pdu[1] = 16
    /\ U16(pdu, 2) = address
    /\ U16(pdu, 4) = Len(vals)
    /\ pdu[6] = 2 * Len(vals)
    /\ \A k \in 1..Len(vals) : U16(pdu, 5 + 2 * k) = vals[k]

\* C7 as stated: for every list of M registers the PDU has 6 + 2M bytes:
\* code 16, the address, M, a one-byte byte_count of 2M and the registers.
C7_AnyLength ==
    RegsCalled =>
        /\ result.status = "ok"
        /\ RegsLayout(result.pdu, starting_address, values)

\* C7 amended: the layout holds for every list of at most 127 registers;
\* for a longer list 2M does not fit the one-byte byte_count and the call
\* raises struct.error.
C7_UpTo127 ==
    RegsCalled =>
        IF Len(values) <= 127
        THEN /\ result.status = "ok"
             /\ RegsLayout(result.pdu, starting_address, values)
        ELSE result = StructError

C7_Witness ==
    /\ RegsCalled
    /\ starting_address = 4660
    /\ values = <<258, 65535>>
    /\ result = Ok(<<16, 18, 52, 0, 2, 4, 1, 2, 255, 255>>)

----------------------------------------------------------------------------
(* Properties of the route table.                                          *)

\* a constraint admits a value
Admits(constraint, v) == constraint.none \/ v \in constraint.members

\* the rules of the table that admit the function code and the address
Matching(rs, function_code, address) ==
    {k \in 1..Len(rs) : /\ Admits(rs[k].function_codes, function_code)
                        /\ Admits(rs[k].addresses, address)}

NotFound(r) == r.kind \in {"False", "None"}

MatchCalled == fn = "match"

\* C3: for a non-empty table whose first rule admits the slave id, match
\* returns the endpoint of the lowest-index rule that admits the function
\* code and the address.
C3_FirstMatchWins ==
    (/\ MatchCalled
     /\ Len(rules) > 0
     /\ Admits(rules[1].slave_ids, args[1])) =>
        \A k \in Matching(rules, args[2], args[3]) :
            (\A j \in Matching(rules, args[2], args[3]) : k <= j) =>
                result = Endpoint(rules[k].endpoint)

C3_Witness ==
    /\ MatchCalled
    /\ Len(rules) = 2
    /\ Admits(rules[1].slave_ids, args[1])
    /\ Matching(rules, args[2], args[3]) = {1, 2}
    /\ rules[1].endpoint = "B"
    /\ rules[2].endpoint = "A"
    /\ result = Endpoint("B")

\* the table with the slave_ids of every rule but the first set to None
WithoutLaterSlaveIds(rs) ==
    [k \in 1..Len(rs) |->
        IF k = 1 THEN rs[k] ELSE [rs[k] EXCEPT !.slave_ids = NoneC]]

\* C4: when the first rule does not admit the slave id, match returns
\* not-found whatever the later rules say; when it does, the result is the
\* one the table gives with the slave_ids of all later rules removed.
C4_GateOnFirstRuleOnly ==
    (MatchCalled /\ Len(rules) > 0) =>
        IF ~Admits(rules[1].slave_ids, args[1])
        THEN NotFound(result)
        ELSE /\ result.kind \in {"endpoint", "None"}
             /\ result = match(WithoutLaterSlaveIds(rules),
                               args[1], args[2], args[3])

C4_Witness ==
    /\ MatchCalled
    /\ Len(rules) = 2
    /\ rules[1].slave_ids = OneOf({1})
    /\ rules[2].slave_ids = OneOf({2})
    /\ args[1] = 2
    /\ Matching(rules, args[2], args[3]) = {1, 2}
    /\ result = ReturnFalse

\* C5: match never ends in an error, on any table built by zero or more
\* add_rule calls, and returns not-found when no rule admits both the
\* function code and the address.
C5_MatchNeverRaises ==
    MatchCalled =>
        /\ result.kind \in {"endpoint", "False", "None"}
        /\ (Matching(rules, args[2], args[3]) = {} => NotFound(result))

\* C9: add_rule lengthens the list by one, putting the rule it was given
\* last and leaving the earlier rules as they were; match leaves the list
\* as it was, and the same match repeated returns the same result.
C9_AppendOnly ==
    [][/\ (fn' = "add_rule" =>
              /\ Len(rules') = Len(rules) + 1
              /\ SubSeq(rules', 1, Len(rules)) = rules
              /\ rules'[Len(rules')] =
                     [endpoint |-> args'[1], slave_ids |-> args'[2],
                      function_codes |-> args'[3], addresses |-> args'[4]])
       /\ (fn' = "match" =>
              /\ rules' = rules
              /\ ((fn = "match" /\ args' = args) => result' = result))]_vars

C9_Witness ==
    /\ fn = "add_rule"
    /\ Len(rules) = 2
    /\ rules[1] = DataRule("A", OneOf({1}), OneOf({3}), NoneC)
    /\ rules[2] = DataRule("B", NoneC, NoneC, OneOf({42}))
    /\ args = <<"B", NoneC, NoneC, OneOf({42})>>

====
